---------------------------- MODULE Spec2Model ----------------------------
(***************************************************************************)
(* CLFController (src/controllers/clf_controller.py): a CLF-QP whole-body  *)
(* controller.  __init__ builds the Lyapunov certificate (F, G, P, gamma); *)
(* ControlLaw builds, on every tick, a fresh MathematicalProgram from the  *)
(* robot state and the trunk setpoint, solves it and logs V, Vdot and err. *)
(*                                                                         *)
(* numpy vectors are sequences, matrices sequences of rows, and `@` checks  *)
(* its operands' shapes as numpy does.  Positions, velocities, Jacobians   *)
(* and the solver's values are whole numbers.  The certificate and the     *)
(* body's angles are not: P holds sqrt(120) and the yaw of a turned body   *)
(* is a multiple of pi/2 radians.  Such a number r (an entry of P, gamma,  *)
(* x, x_tilde, eta, V, Vdot, err, the Vdot cost, the CLF row and its       *)
(* bound) is a decimal <<hi, lo>> that stands for hi/Scale + lo/Scale^2,   *)
(* hi and lo of the same sign and |lo| < Scale: with Scale = 10000,        *)
(* <<-299091, -7000>> is -29.90917000.  Sums, differences and products     *)
(* with whole numbers are exact; products of two decimals, quotients and   *)
(* square roots are cut after the last digit (rounded toward zero).  The   *)
(* body is turned by quarter turns about the vertical axis, where the RPY  *)
(* rate maps have integer entries.  The dynamics provider and the QP       *)
(* solver are libraries: their results are drawn from small sets of values *)
(* that satisfy their contracts.                                           *)
(***************************************************************************)
EXTENDS Integers, Sequences, FiniteSets, TLC

VARIABLES
    attrs,    \* names of the attributes the controller object has
    F,        \* self.F
    G,        \* self.G
    P,        \* self.P
    gamma,    \* self.gamma
    mp,       \* self.mp, the MathematicalProgram of the latest tick
    V,        \* self.V
    Vdot,     \* self.Vdot
    err,      \* self.err
    built,    \* "none", "ready" (constructed) or "aborted" (__init__ raised)
    ret,      \* what the latest call did: returned a torque or raised
    last,     \* the local quantities of the latest ControlLaw call
    optimized,\* the interpreter runs with -O: assert statements are compiled out
    calls     \* the builder calls a client has made since the latest tick

vars == <<attrs, F, G, P, gamma, mp, V, Vdot, err, built, ret, last, optimized, calls>>

---------------------------------------------------------------------------
(* Program constants.                                                      *)

\* the four feet lf, rf, lh, rh
NumFeet == 4
\* rows of the body task (3 orientation + 3 position); the blocks of F, G
BodyDim == 6
\* plant.num_velocities(): 6 floating-base velocities + 12 joints
NumVelocities == 18
\* plant.num_actuators()
NumActuators == 12
\* Q = 100*np.eye(12)
QWeight == 100
\* R = np.eye(6)
RWeight == 1

(* Bounds of the model.                                                    *)

\* the base of the decimals: a real is kept to two digits of this base after
\* the point, a resolution of 1/Scale^2
Scale == 10000

\* largest position and velocity error component of the measured state
MaxErr == 1
\* largest magnitude of a component of a solver's acceleration candidate
MaxAcc == 16
\* largest magnitude of a slack delta; Scale * MaxSlack is more than the step of
\* the CLF row between neighbouring integer accelerations
MaxSlack == 25
\* most builder calls a client makes itself between two ticks
MaxDirectCalls == 2

Feet == 1..NumFeet

---------------------------------------------------------------------------
(* numpy.                                                                  *)

\* np.asarray: the array as a tuple of its entries
Arr(f) == f \o <<>>

Zeros(n) == Arr([i \in 1..n |-> 0])

ZerosM(r, c) == Arr([i \in 1..r |-> Zeros(c)])

Eye(n) == Arr([i \in 1..n |-> Arr([j \in 1..n |-> IF i = j THEN 1 ELSE 0])])

Unit(n, k, a) == Arr([i \in 1..n |-> IF i = k THEN a ELSE 0])

Rows(M) == Len(M)

Cols(M) == IF Len(M) = 0 THEN 0 ELSE Len(M[1])

ScaleV(a, v) == Arr([i \in 1..Len(v) |-> a * v[i]])

ScaleM(a, M) == Arr([i \in 1..Len(M) |-> ScaleV(a, M[i])])

AddV(u, v) == Arr([i \in 1..Len(u) |-> u[i] + v[i]])

SubV(u, v) == Arr([i \in 1..Len(u) |-> u[i] - v[i]])

\* np.hstack of 1-D arrays
HStack(u, v) == u \o v

\* np.block([[A, B]]) / np.hstack of 2-D arrays with the same number of rows
HStackM(A, B) == Arr([i \in 1..Len(A) |-> A[i] \o B[i]])

\* np.vstack of 2-D arrays
VStackM(A, B) == A \o B

RECURSIVE SumTo(_, _)
SumTo(f, n) == IF n = 0 THEN 0 ELSE f[n] + SumTo(f, n - 1)

\* u @ v for two 1-D arrays of the same length
Dot(u, v) == SumTo(Arr([i \in 1..Len(u) |-> u[i] * v[i]]), Len(u))

\* M @ v for a 2-D array and a 1-D array; defined when Cols(M) = Len(v)
MatVec(M, v) == Arr([i \in 1..Len(M) |-> Dot(M[i], v)])

\* the shape rule of `@`: the inner dimensions agree, otherwise ValueError
CanVecMat(v, M) == Len(v) = Rows(M)

\* a[mask] for a boolean mask over the first axis: the selected entries, in order
RECURSIVE MaskFrom(_, _, _)
MaskFrom(a, mask, k) ==
    IF k > Len(a) THEN <<>>
    ELSE IF mask[k] THEN <<a[k]>> \o MaskFrom(a, mask, k + 1)
    ELSE MaskFrom(a, mask, k + 1)

Mask(a, mask) == MaskFrom(a, mask, 1)

\* sum(flags): the number of True entries of a list of booleans
RECURSIVE CountTrue(_, _)
CountTrue(flags, k) ==
    IF k = 0 THEN 0 ELSE (IF flags[k] THEN 1 ELSE 0) + CountTrue(flags, k - 1)

\* a.flatten() / np.vstack(list) of a list of rows or of matrices
RECURSIVE Flatten(_)
Flatten(a) == IF Len(a) = 0 THEN <<>> ELSE a[1] \o Flatten(Tail(a))

\* the element of a set of one element: in One({e(x) : x \in {v}}) the value
\* v is computed once, however often e uses it
One(S) == CHOOSE x \in S : TRUE

\* the largest r in lo..hi with r*r <= n
RECURSIVE ISqrtFrom(_, _, _)
ISqrtFrom(n, lo, hi) ==
    IF lo >= hi THEN lo
    ELSE One({IF mid * mid <= n THEN ISqrtFrom(n, mid, hi) ELSE ISqrtFrom(n, lo, mid - 1) :
                 mid \in {(lo + hi + 1) \div 2}})

\* np.sqrt, rounded down to a whole number (n < 2^31)
ISqrt(n) == One({ISqrtFrom(m, 0, 46340) : m \in {n}})

---------------------------------------------------------------------------
(* Real numbers: the decimal <<hi, lo>> is hi/Scale + lo/Scale^2.          *)

RZero == <<0, 0>>

\* float(n) for a whole number n
Real(n) == <<n * Scale, 0>>

Abs(n) == IF n < 0 THEN -n ELSE n

\* n / d for d > 0, rounded toward zero
Trunc(n, d) == IF n >= 0 THEN n \div d ELSE -((-n) \div d)

\* the decimal of h/Scale + l/Scale^2 for any whole numbers h, l
Norm(h, l) ==
    One({ IF t[1] > 0 /\ t[2] < 0 THEN <<t[1] - 1, t[2] + Scale>>
          ELSE IF t[1] < 0 /\ t[2] > 0 THEN <<t[1] + 1, t[2] - Scale>>
          ELSE t :
            t \in {<<h + c, l - c * Scale>> : c \in {Trunc(l, Scale)}} })

Sgn(a) == IF a[1] > 0 \/ a[2] > 0 THEN 1 ELSE IF a[1] < 0 \/ a[2] < 0 THEN -1 ELSE 0

\* a + b
RAdd(a, b) == One({Norm(x[1] + y[1], x[2] + y[2]) : x \in {a}, y \in {b}})

\* -a
RNeg(a) == One({<<-x[1], -x[2]>> : x \in {a}})

\* a - b
RSub(a, b) == One({Norm(x[1] - y[1], x[2] - y[2]) : x \in {a}, y \in {b}})

\* k * a for a whole number k
RScale(k, a) ==
    One({IF n = 0 THEN RZero ELSE Norm(n * x[1], n * x[2]) : n \in {k}, x \in {a}})

\* a <= b and a < b
RLe(a, b) == \E x \in {a}, y \in {b} : x[1] < y[1] \/ (x[1] = y[1] /\ x[2] <= y[2])

RLt(a, b) == \E x \in {a}, y \in {b} : x[1] < y[1] \/ (x[1] = y[1] /\ x[2] < y[2])

\* the digits of |a| in base Scale: whole part, first and second digit
Limbs(a) == One({<<Abs(x[1]) \div Scale, Abs(x[1]) % Scale, Abs(x[2])>> : x \in {a}})

\* the decimal with the sign s and the digits m
FromLimbs(s, m) == One({<<n * (x[1] * Scale + x[2]), n * x[3]>> : n \in {s}, x \in {m}})

\* the carries of a product: the digits of w[1] + w[2]/Scale + ... in base Scale,
\* from the last digit to the whole part
RECURSIVE Carry(_, _, _)
Carry(w, k, c) ==
    IF k = 1 THEN <<w[1] + c>>
    ELSE One({Carry(w, k - 1, v \div Scale) \o <<v % Scale>> : v \in {w[k] + c}})

\* the exact product of two digit strings: whole part and four digits
MulLimbs(x, y) ==
    One({ One({Carry(w, Len(w), 0) :
                 w \in {<< a[1] * b[1],
                           a[1] * b[2] + a[2] * b[1],
                           a[1] * b[3] + a[2] * b[2] + a[3] * b[1],
                           a[2] * b[3] + a[3] * b[2],
                           a[3] * b[3] >>}}) :
            a \in {x}, b \in {y} })

\* x <= y for two digit strings of the same length
RECURSIVE LimbsLeFrom(_, _, _)
LimbsLeFrom(x, y, k) ==
    IF k > Len(x) THEN TRUE
    ELSE IF x[k] # y[k] THEN x[k] < y[k]
    ELSE LimbsLeFrom(x, y, k + 1)

LimbsLe(x, y) == \E a \in {x}, b \in {y} : LimbsLeFrom(a, b, 1)

\* a * b of two decimals, cut after the last digit
RMul(a, b) ==
    One({ IF x = RZero \/ y = RZero THEN RZero
          ELSE FromLimbs(Sgn(x) * Sgn(y), MulLimbs(Limbs(x), Limbs(y))) :
            x \in {a}, y \in {b} })

\* y with the digit d at place k, times z, is at most x (z = <<>> stands for y
\* with that digit: the square)
Fits(x, y, z, k, d) ==
    \E cand \in {[y EXCEPT ![k] = d]} :
        LimbsLe(MulLimbs(cand, IF z = <<>> THEN cand ELSE z), x \o <<0, 0>>)

\* the largest digit d in lo..hi for which Fits holds
RECURSIVE DigitFrom(_, _, _, _, _, _)
DigitFrom(x, y, z, k, lo, hi) ==
    IF lo >= hi THEN lo
    ELSE One({ IF Fits(x, y, z, k, mid) THEN DigitFrom(x, y, z, k, mid, hi)
               ELSE DigitFrom(x, y, z, k, lo, mid - 1) :
                 mid \in {(lo + hi + 1) \div 2} })

\* the largest digit string y with y * z <= x, the whole part sought in 0..top
Quotient(x, z, top) ==
    One({ One({ One({ <<d0, d1, d2>> :
                        d2 \in {DigitFrom(a, <<d0, d1, 0>>, b, 3, 0, Scale - 1)} }) :
                  d1 \in {DigitFrom(a, <<d0, 0, 0>>, b, 2, 0, Scale - 1)} }) :
            a \in {x}, b \in {z}, d0 \in {DigitFrom(x, <<0, 0, 0>>, z, 1, 0, top)} })

\* np.sqrt(a) for a >= 0, cut after the last digit
RSqrt(a) == One({FromLimbs(1, Quotient(x, <<>>, ISqrt(x[1]))) : x \in {Limbs(a)}})

\* the largest whole part that a decimal holds
MaxWhole == (2147483647 \div Scale) - 1

\* a bound on the whole part of x / y: x[1] when y >= 1, (x[1] + 1) * Scale
\* when y >= 1/Scale, and the largest whole part otherwise
WholeBound(x, y) ==
    IF y[1] >= 1 THEN x[1]
    ELSE IF y[2] >= 1 /\ x[1] < MaxWhole \div Scale THEN (x[1] + 1) * Scale
    ELSE MaxWhole

\* a / b for b # 0 and |a / b| <= MaxWhole, cut after the last digit
RDiv(a, b) ==
    One({ FromLimbs(Sgn(u[1]) * Sgn(u[2]), Quotient(x, y, WholeBound(x, y))) :
            u \in {<<a, b>>}, x \in {Limbs(a)}, y \in {Limbs(b)} })

\* a / k for a whole number k > 0, cut after the last digit
RDivInt(a, k) ==
    One({ << Sgn(x) * (Abs(x[1]) \div k),
             Sgn(x) * (((Abs(x[1]) % k) * Scale + Abs(x[2])) \div k) >> : x \in {a} })

\* n / d for whole numbers n >= 0 and d > 0, cut after the last digit
FromRatio(n, d) ==
    LET r0 == n % d
        r1 == (r0 * Scale) % d
    IN  <<(n \div d) * Scale + ((r0 * Scale) \div d), (r1 * Scale) \div d>>

\* the array of whole numbers as an array of floats
RealV(v) == One({Arr([i \in 1..Len(x) |-> Real(x[i])]) : x \in {v}})

RealM(M) == One({Arr([i \in 1..Len(X) |-> RealV(X[i])]) : X \in {M}})

RScaleV(k, v) == One({Arr([i \in 1..Len(x) |-> RScale(k, x[i])]) : x \in {v}})

RSubV(u, v) == One({Arr([i \in 1..Len(x) |-> RSub(x[i], y[i])]) : x \in {u}, y \in {v}})

RECURSIVE RSumTo(_, _)
RSumTo(f, n) == IF n = 0 THEN RZero ELSE RAdd(f[n], RSumTo(f, n - 1))

\* the sum of a 1-D array of floats
RSum(f) == One({RSumTo(g, Len(g)) : g \in {f}})

\* u @ v for two 1-D arrays of floats
RDot(u, v) ==
    One({RSum(Arr([i \in 1..Len(x) |-> RMul(x[i], y[i])])) : x \in {u}, y \in {v}})

\* u @ v for a 1-D array of floats and one of whole numbers
RDotI(u, v) ==
    One({RSum(Arr([i \in 1..Len(x) |-> RScale(y[i], x[i])])) : x \in {u}, y \in {v}})

\* v @ M for a 1-D and a 2-D array of floats
RVecMat(v, M) ==
    One({ Arr([j \in 1..Cols(X) |->
                  RSum(Arr([i \in 1..Len(x) |-> RMul(x[i], X[i][j])]))]) :
            x \in {v}, X \in {M} })

\* v @ M for a 1-D array of floats and a 2-D array of whole numbers
RVecMatI(v, M) ==
    One({ Arr([j \in 1..Cols(X) |->
                  RSum(Arr([i \in 1..Len(x) |-> RScale(X[i][j], x[i])]))]) :
            x \in {v}, X \in {M} })

\* np.kron(A, np.eye(n)) for a 2-D array A of floats
RKronEye(A, n) ==
    One({ Arr([i \in 1..(Len(X) * n) |->
              Arr([j \in 1..(Cols(X) * n) |->
                  IF ((i - 1) % n) = ((j - 1) % n)
                  THEN X[((i - 1) \div n) + 1][((j - 1) \div n) + 1]
                  ELSE RZero])]) :
            X \in {A} })

\* np.linalg.eigvals of a symmetric matrix kron([[a, b], [b, c]], I): the two
\* roots (a + c -+ sqrt((a - c)^2 + 4 b^2)) / 2 of the 2x2 block's
\* characteristic polynomial
Eigvals(M) ==
    One({ One({ {RDivInt(RSub(s, r), 2), RDivInt(RAdd(s, r), 2)} :
                  s \in {RAdd(a, c)},
                  r \in {RSqrt(RAdd(RMul(RSub(a, c), RSub(a, c)),
                                    RScale(4, RMul(b, b))))} }) :
            a \in {M[1][1]},
            b \in {M[1][(Len(M) \div 2) + 1]},
            c \in {M[(Len(M) \div 2) + 1][(Len(M) \div 2) + 1]} })

\* np.min and np.max
RMin(S) == One({CHOOSE x \in T : \A y \in T : RLe(x, y) : T \in {S}})

RMax(S) == One({CHOOSE x \in T : \A y \in T : RLe(y, x) : T \in {S}})

---------------------------------------------------------------------------
(* The Lyapunov certificate of __init__.                                   *)

\* self.F = [[0, I], [0, 0]]: eta_dot = F*eta + G*nu
FMatrix ==
    VStackM(HStackM(ZerosM(BodyDim, BodyDim), Eye(BodyDim)),
            HStackM(ZerosM(BodyDim, BodyDim), ZerosM(BodyDim, BodyDim)))

\* self.G = [[0], [I]]
GMatrix == VStackM(ZerosM(BodyDim, BodyDim), Eye(BodyDim))

\* Q = 100*np.eye(12)
QMatrix == ScaleM(QWeight, Eye(2 * BodyDim))

\* R = np.eye(6)
RMatrix == ScaleM(RWeight, Eye(BodyDim))

\* What ContinuousAlgebraicRiccatiEquation(F, G, Q, R) does: it raises, or it
\* returns the stabilizing solution of F'P + PF - P G R^-1 G'P + Q = 0.
RiccatiOutcomes == {"solves", "raises"}

\* The stabilizing solution for the arguments of line 24, F = [[0, I], [0, 0]],
\* G = [[0], [I]], Q = q*I, R = r*I: P = kron([[a, b], [b, c]], I) with
\* b = sqrt(q*r), c = sqrt(r*(q + 2*b)), a = b*c/r = sqrt(q*(q + 2*b)).
RiccatiSolution(Fm, Gm, Qm, Rm) ==
    One({ One({ RKronEye(<< <<a, b>>, <<b, c>> >>, Cols(Gm)) :
                  a \in {RSqrt(RMul(q, RAdd(q, RScale(2, b))))},
                  c \in {RSqrt(RMul(r, RAdd(q, RScale(2, b))))} }) :
            q \in {Real(Qm[1][1])},
            r \in {Real(Rm[1][1])},
            b \in {RSqrt(RMul(Real(Qm[1][1]), Real(Rm[1][1])))} })

\* self.gamma = np.min(np.linalg.eigvals(Q)) / np.max(np.linalg.eigvals(self.P))
DecayRate(Qm, Pm) == RDiv(RMin(Eigvals(RealM(Qm))), RMax(Eigvals(Pm)))

---------------------------------------------------------------------------
(* The inputs of a tick.                                                   *)

\* the contact plan number k: foot f is in contact when bit f-1 of k is set
PlanOf(k) == Arr([f \in Feet |-> ((k \div (2 ^ (f - 1))) % 2) = 1])

\* trunk_data["contact_states"]: one boolean per foot, in the order lf, rf, lh, rh
ContactPlans == {PlanOf(k) : k \in 0..(2 ^ NumFeet - 1)}

\* The dynamics provider at the current (q, v): the body frame's pose, Jacobian
\* and bias term, and each foot frame's position, Jacobian and bias term.
\* px is the body's position error, vx its velocity; the body is turned by
\* yaw quarter turns.
RobotState(px, vx) ==
    [ v        |-> Unit(NumVelocities, 4, vx),
      yaw      |-> (px + vx) % 4,
      p_body   |-> <<px, 0, 0>>,
      J_body   |-> HStackM(Eye(BodyDim), ZerosM(BodyDim, NumVelocities - BodyDim)),
      Jdv_body |-> Unit(BodyDim, 4, vx * vx),
      p_feet   |-> Arr([f \in Feet |-> <<px + f, 0, 0>>]),
      J_feet   |-> Arr([f \in Feet |->
                      Arr([i \in 1..3 |->
                          Arr([j \in 1..NumVelocities |->
                              IF j = 3 + i \/ j = BodyDim + 3 * (f - 1) + i
                              THEN 1 ELSE 0])])]),
      Jdv_feet |-> Arr([f \in Feet |-> <<0, 0, f * vx * vx>>]) ]

\* the configurations q (position error px) and velocities v (vx) of a tick:
\* at rest with no error, and moving with an error of every size
Configs == {<<px, px % 2>> : px \in 0..MaxErr}

\* trunk_data: the setpoint of the trunk model.  rr is the planned roll rate
\* and body acceleration; each foot's planned motion is its own.
TrunkData(cs, rr) ==
    [ contact_states |-> cs,
      p_body     |-> <<0, 0, 0>>,
      pd_body    |-> <<0, 0, 0>>,
      pdd_body   |-> <<rr, 0, 0>>,
      rpy_body   |-> <<0, 0, 0>>,
      rpyd_body  |-> <<rr, 0, 0>>,
      rpydd_body |-> <<0, 0, 0>>,
      p_feet     |-> Arr([f \in Feet |-> <<f, 0, 0>>]),
      pd_feet    |-> Arr([f \in Feet |-> <<0, f, 0>>]),
      pdd_feet   |-> Arr([f \in Feet |-> <<0, 0, f>>]) ]

\* the planned rates of a tick
PlannedRates == {1}

\* an acceleration of the floating base alone, the same in its six components
BodyAcc(k) == Arr([i \in 1..NumVelocities |-> IF i <= BodyDim THEN k ELSE 0])

\* the values of vd and of delta that a result of the solver may hold
SolverAccs == {-MaxAcc, MaxAcc}

SolverSlacks == {-MaxSlack, 0, MaxSlack}

\* the values that GetSolution reads from a result that reports failure: the
\* solver's last iterate, which need not satisfy the program
FailedAccs == {MaxAcc}

FailedSlacks == {0, MaxSlack}

---------------------------------------------------------------------------
(* RollPitchYaw of a body turned by k quarter turns about the vertical.    *)

\* pi as a ratio of whole numbers, right to ten digits after the point
PiRatio == <<312689, 99532>>

\* the angle of k quarter turns in radians, in the range (-pi, pi] of
\* RollPitchYaw: k*pi/2 for k = 0, 1, 2 and -pi/2 for k = 3
Radians(k) ==
    LET t == FromRatio((IF k % 4 = 3 THEN 1 ELSE k % 4) * PiRatio[1], 2 * PiRatio[2])
    IN  IF k % 4 = 3 THEN RNeg(t) ELSE t

\* RPY_body.vector(): roll, pitch and yaw in radians
RpyVector(yaw) == <<RZero, RZero, Radians(yaw)>>

CosQ(k) == CASE k % 4 = 0 -> 1 [] k % 4 = 2 -> -1 [] OTHER -> 0

SinQ(k) == CASE k % 4 = 1 -> 1 [] k % 4 = 3 -> -1 [] OTHER -> 0

\* RPY_body.CalcAngularVelocityInParentFromRpyDt(rpyd)
CalcAngularVelocityInParentFromRpyDt(yaw, rpyd) ==
    << CosQ(yaw) * rpyd[1] - SinQ(yaw) * rpyd[2],
       SinQ(yaw) * rpyd[1] + CosQ(yaw) * rpyd[2],
       rpyd[3] >>

\* RPY_body.CalcRpyDtFromAngularVelocityInParent(omega)
CalcRpyDtFromAngularVelocityInParent(yaw, omega) ==
    << CosQ(yaw) * omega[1] + SinQ(yaw) * omega[2],
       CosQ(yaw) * omega[2] - SinQ(yaw) * omega[1],
       omega[3] >>

\* v[a:b] for a 1-D array (0-based, b exclusive)
Slice(v, a, b) == Arr([i \in 1..(b - a) |-> v[a + i]])

---------------------------------------------------------------------------
(* The task-space quantities of ControlLaw, lines 98-172.                  *)

\* mutant of SwingFeet: the swing flags copy the contact flags
SwingFeet_Copy(contact_feet) == contact_feet

\* swing_feet = [not foot for foot in contact_feet]
SwingFeet(contact_feet) == Arr([f \in 1..Len(contact_feet) |-> ~contact_feet[f]])

\* mutant of NominalSwing: the nominal swing rows come out in the opposite order
NominalSwing_Reversed(feet_nom, swing_feet) ==
    LET m == Mask(feet_nom, swing_feet)
    IN  Arr([k \in 1..Len(m) |-> m[Len(m) + 1 - k]])

\* p_s_nom = p_feet_nom[swing_feet], and the same for pd_feet_nom, pdd_feet_nom
NominalSwing(feet_nom, swing_feet) == Mask(feet_nom, swing_feet)

TaskSpace(rob, trunk) ==
    LET contact_feet == trunk.contact_states
        swing_feet   == SwingFeet(contact_feet)
        p_s_nom      == NominalSwing(trunk.p_feet, swing_feet)
        pd_s_nom     == NominalSwing(trunk.pd_feet, swing_feet)
        pdd_s_nom    == NominalSwing(trunk.pdd_feet, swing_feet)
        Jv           == MatVec(rob.J_body, rob.v)
        pd_body      == Slice(Jv, 3, 6)
        rpy_body     == RpyVector(rob.yaw)
        omega_body   == Slice(Jv, 0, 3)
        rpyd_body    == CalcRpyDtFromAngularVelocityInParent(rob.yaw, omega_body)
        pd_feet      == Arr([f \in Feet |-> MatVec(rob.J_feet[f], rob.v)])
        p_s          == Mask(rob.p_feet, swing_feet)
        pd_s         == Mask(pd_feet, swing_feet)
        J_s          == Mask(rob.J_feet, swing_feet)
        Jdv_s        == Mask(rob.Jdv_feet, swing_feet)
        anySwing     == \E f \in Feet : swing_feet[f]
        x      == HStack(HStack(rpy_body, RealV(rob.p_body)), RealV(Flatten(p_s)))
        xd     == HStack(HStack(CalcAngularVelocityInParentFromRpyDt(rob.yaw, rpyd_body),
                                pd_body), Flatten(pd_s))
        x_nom  == RealV(HStack(HStack(trunk.rpy_body, trunk.p_body), Flatten(p_s_nom)))
        xd_nom == HStack(HStack(CalcAngularVelocityInParentFromRpyDt(rob.yaw, trunk.rpyd_body),
                                trunk.pd_body), Flatten(pd_s_nom))
    IN  [ contact_feet |-> contact_feet,
          swing_feet   |-> swing_feet,
          num_contact  |-> CountTrue(contact_feet, Len(contact_feet)),
          num_swing    |-> CountTrue(swing_feet, Len(swing_feet)),
          J_c      |-> Mask(rob.J_feet, contact_feet),
          Jdv_c    |-> Mask(rob.Jdv_feet, contact_feet),
          J        |-> IF anySwing THEN VStackM(rob.J_body, Flatten(J_s)) ELSE rob.J_body,
          Jdv      |-> IF anySwing THEN HStack(rob.Jdv_body, Flatten(Jdv_s))
                       ELSE rob.Jdv_body,
          x        |-> x,
          xd       |-> xd,
          x_nom    |-> x_nom,
          xd_nom   |-> xd_nom,
          xdd_nom  |-> HStack(HStack(CalcAngularVelocityInParentFromRpyDt(rob.yaw,
                                                                           trunk.rpydd_body),
                                     trunk.pdd_body), Flatten(pdd_s_nom)),
          x_tilde  |-> RSubV(x, x_nom),
          xd_tilde |-> SubV(xd, xd_nom) ]

PlanNumber(cs) ==
    SumTo(Arr([f \in Feet |-> IF cs[f] THEN 2 ^ (f - 1) ELSE 0]), NumFeet)

\* The task-space quantities of every input of a tick, computed once.
TaskSpaceTable ==
    Arr([px \in 1..(MaxErr + 1) |->
        Arr([vx \in 1..2 |->
            Arr([rr \in 1..2 |->
                Arr([k \in 1..(2 ^ NumFeet) |->
                    TaskSpace(RobotState(px - 1, vx - 1),
                              TrunkData(PlanOf(k - 1), rr - 1))])])])])

TaskSpaceAt(qv, cs, rr) ==
    TaskSpaceTable[qv[1] + 1][qv[2] + 1][rr + 1][PlanNumber(cs) + 1]

---------------------------------------------------------------------------
(* The MathematicalProgram and the terms added to it.                      *)

EmptyProgram == [vars |-> <<>>, costs |-> <<>>, constraints |-> <<>>]

\* self.mp = MathematicalProgram(): a new, empty program replaces the field
MathematicalProgram(old) == EmptyProgram

\* self.mp.NewContinuousVariables(rows, ..., name)
NewContinuousVariables(prog, rows, name) ==
    [prog EXCEPT !.vars = Append(@, [name |-> name, rows |-> rows])]

AddCost(prog, kind, a) ==
    [prog EXCEPT !.costs = Append(@, [kind |-> kind, a |-> a, b |-> 0])]

\* lb <= A*x <= ub with lb = -inf: only the upper bound acts
AddConstraint(prog, kind, A, ub, n) ==
    [prog EXCEPT !.constraints =
        Append(@, [kind |-> kind, A |-> A, ub |-> ub, n |-> n])]

ForceNames == <<"f_0", "f_1", "f_2", "f_3">>

\* f_c = [self.mp.NewContinuousVariables(3,1,'f_%s'%j) for j in range(num_contact)]
RECURSIVE NewContactForces(_, _, _)
NewContactForces(prog, j, num_contact) ==
    IF j >= num_contact THEN prog
    ELSE NewContactForces(NewContinuousVariables(prog, 3, ForceNames[j + 1]),
                          j + 1, num_contact)

\* eta = np.hstack([x_tilde, xd_tilde])
Eta(x_tilde, xd_tilde) == HStack(x_tilde, RealV(xd_tilde))

\* The shapes that 2*eta.T@self.P@self.G@J needs; numpy raises ValueError otherwise
VdotCostShapesOk(Pm, Gm, eta, J) ==
    /\ CanVecMat(eta, Pm)
    /\ Cols(Pm) = Rows(Gm)
    /\ Cols(Gm) = Rows(J)

\* The shapes that AddVdotConstraint needs in lines 49-55
VdotConstraintShapesOk(Fm, Pm, Gm, eta, J, Jdv, xdd_nom) ==
    /\ VdotCostShapesOk(Pm, Gm, eta, J)
    /\ Cols(Pm) = Rows(Fm)
    /\ Cols(Fm) = Len(eta)
    /\ Len(Jdv) = Len(xdd_nom)
    /\ Cols(Gm) = Len(Jdv)

\* the certificate that __init__ builds when the Riccati solve succeeds
Certificate ==
    LET Pm == RiccatiSolution(FMatrix, GMatrix, QMatrix, RMatrix)
    IN  [F |-> FMatrix, G |-> GMatrix, P |-> Pm, gamma |-> DecayRate(QMatrix, Pm)]

\* the task-space quantities of the ticks with all four feet in contact, those
\* whose shapes fit the certificate
StanceTicks ==
    {ts \in {TaskSpaceAt(qv, PlanOf(2 ^ NumFeet - 1), rr) :
                qv \in Configs, rr \in PlannedRates} :
        VdotConstraintShapesOk(Certificate.F, Certificate.P, Certificate.G,
                               Eta(ts.x_tilde, ts.xd_tilde), ts.J, ts.Jdv, ts.xdd_nom)}

\* 2*eta.T@self.P@self.G@J
EtaPGJ(Pm, Gm, eta, J) == RVecMatI(RVecMatI(RVecMat(RScaleV(2, eta), Pm), Gm), J)

\* V = eta.T@self.P@eta
LyapunovV(Pm, eta) == RDot(RVecMat(eta, Pm), eta)

\* ub = -gamma*V - 2*eta.T@P@F@eta - 2*eta.T@P@G@(Jdv - xdd_nom)
VdotUpperBound(Fm, Pm, Gm, gam, eta, Jdv, xdd_nom) ==
    LET etaP2 == RVecMat(RScaleV(2, eta), Pm)
    IN  RSub(RSub(RMul(RNeg(gam), LyapunovV(Pm, eta)),
                  RDot(RVecMatI(etaP2, Fm), eta)),
             RDotI(RVecMatI(etaP2, Gm), SubV(Jdv, xdd_nom)))

\* self.Vdot = 2*eta.T@P@F@eta + 2*eta.T@P@G@(J@vd + Jdv - xdd_nom)
VdotOf(Fm, Pm, Gm, eta, J, vd, Jdv, xdd_nom) ==
    LET etaP2 == RVecMat(RScaleV(2, eta), Pm)
    IN  RAdd(RDot(RVecMatI(etaP2, Fm), eta),
             RDotI(RVecMatI(etaP2, Gm), SubV(AddV(MatVec(J, vd), Jdv), xdd_nom)))

\* The four products above on the arguments that the ticks pass them, computed
\* once: the value of a product depends on its arguments alone.
EtaPGJTable ==
    [k \in {<<Certificate.P, Certificate.G, Eta(ts.x_tilde, ts.xd_tilde), ts.J>> :
                ts \in StanceTicks} |->
        EtaPGJ(k[1], k[2], k[3], k[4])] @@ <<>>

LyapunovVTable ==
    [k \in {<<Certificate.P, Eta(ts.x_tilde, ts.xd_tilde)>> : ts \in StanceTicks} |->
        LyapunovV(k[1], k[2])] @@ <<>>

VdotUpperBoundTable ==
    [k \in {<<Certificate.F, Certificate.P, Certificate.G, Certificate.gamma,
               Eta(ts.x_tilde, ts.xd_tilde), ts.Jdv, ts.xdd_nom>> : ts \in StanceTicks} |->
        VdotUpperBound(k[1], k[2], k[3], k[4], k[5], k[6], k[7])] @@ <<>>

VdotOfTable ==
    [k \in {<<Certificate.F, Certificate.P, Certificate.G, Eta(ts.x_tilde, ts.xd_tilde),
               ts.J, BodyAcc(a), ts.Jdv, ts.xdd_nom>> :
                ts \in StanceTicks, a \in SolverAccs \cup FailedAccs} |->
        VdotOf(k[1], k[2], k[3], k[4], k[5], k[6], k[7], k[8])] @@ <<>>

EtaPGJOnce(Pm, Gm, eta, J) ==
    IF <<Pm, Gm, eta, J>> \in DOMAIN EtaPGJTable
    THEN EtaPGJTable[<<Pm, Gm, eta, J>>]
    ELSE EtaPGJ(Pm, Gm, eta, J)

LyapunovVOnce(Pm, eta) ==
    IF <<Pm, eta>> \in DOMAIN LyapunovVTable
    THEN LyapunovVTable[<<Pm, eta>>]
    ELSE LyapunovV(Pm, eta)

VdotUpperBoundOnce(Fm, Pm, Gm, gam, eta, Jdv, xdd_nom) ==
    IF <<Fm, Pm, Gm, gam, eta, Jdv, xdd_nom>> \in DOMAIN VdotUpperBoundTable
    THEN VdotUpperBoundTable[<<Fm, Pm, Gm, gam, eta, Jdv, xdd_nom>>]
    ELSE VdotUpperBound(Fm, Pm, Gm, gam, eta, Jdv, xdd_nom)

VdotOfOnce(Fm, Pm, Gm, eta, J, vd, Jdv, xdd_nom) ==
    IF <<Fm, Pm, Gm, eta, J, vd, Jdv, xdd_nom>> \in DOMAIN VdotOfTable
    THEN VdotOfTable[<<Fm, Pm, Gm, eta, J, vd, Jdv, xdd_nom>>]
    ELSE VdotOf(Fm, Pm, Gm, eta, J, vd, Jdv, xdd_nom)

\* AddVdotCost: the linear cost a*vd with a = weight*2*eta.T@self.P@self.G@J
AddVdotCost(prog, Pm, Gm, x_tilde, xd_tilde, J, weight) ==
    AddCost(prog, "Vdot", RScaleV(weight, EtaPGJOnce(Pm, Gm, Eta(x_tilde, xd_tilde), J)))

\* the delta column of A in AddVdotConstraint
SlackCoefficient == -1

\* mutant of VdotRow: the slack enters the row with the opposite sign
VdotRow_PlusSlack(Pm, Gm, eta, J) ==
    HStack(EtaPGJOnce(Pm, Gm, eta, J), <<Real(-SlackCoefficient)>>)

\* A = np.hstack([2*eta.T@self.P@self.G@J, -1])
VdotRow(Pm, Gm, eta, J) ==
    HStack(EtaPGJOnce(Pm, Gm, eta, J), <<Real(SlackCoefficient)>>)

\* AddVdotConstraint: lb <= A*[vd; delta] <= ub
AddVdotConstraint(prog, Fm, Pm, Gm, gam, x_tilde, xd_tilde, J, Jdv, xdd_nom) ==
    LET eta == Eta(x_tilde, xd_tilde)
    IN  AddConstraint(prog, "Vdot", VdotRow(Pm, Gm, eta, J),
                      VdotUpperBoundOnce(Fm, Pm, Gm, gam, eta, Jdv, xdd_nom),
                      Len(x_tilde))

\* self.mp.AddLinearConstraint( delta[0] <= 0 ): the row 1*delta <= 0
AddSlackConstraint(prog) == AddConstraint(prog, "slack", <<1>>, 0, 1)

\* IDController.AddJacobianTypeCost: || J*vd + Jdv - xdd_nom ||^2
AddJacobianTypeCost(prog, J, Jdv, xdd_nom) == AddCost(prog, "tracking", <<>>)

\* IDController.AddDynamicsConstraint: M*vd + Cv + tau_g = S'*tau + sum(J_c[j]'*f_c[j]),
\* n the number of terms of the contact sum
AddDynamicsConstraint(prog, J_c) ==
    AddConstraint(prog, "dynamics", <<>>, 0, Len(J_c))

\* IDController.AddFrictionPyramidConstraint: one pyramid per contact force
AddFrictionPyramidConstraint(prog, num_contact) ==
    AddConstraint(prog, "friction", <<>>, 0, num_contact)

\* IDController.AddContactConstraint: J_cj*vd + Jd_cj*v == 0 for every contact foot
AddContactConstraint(prog, J_c) ==
    AddConstraint(prog, "contact", <<>>, 0, Len(J_c))

\* lines 185-190: the program and its decision variables
NewTickProgram(old, num_contact) ==
    LET p0 == MathematicalProgram(old)
        p1 == NewContinuousVariables(p0, NumVelocities, "vd")
        p2 == NewContinuousVariables(p1, NumActuators, "tau")
        p3 == NewContactForces(p2, 0, num_contact)
    IN  NewContinuousVariables(p3, 1, "delta")

\* lines 204-212: the dynamics equality and, with a foot in contact, the
\* friction and no-slip constraints
AddContactTerms(prog, ts) ==
    LET p1 == AddDynamicsConstraint(prog, ts.J_c)
    IN  IF \E f \in 1..Len(ts.contact_feet) : ts.contact_feet[f]
        THEN AddContactConstraint(
                 AddFrictionPyramidConstraint(p1, ts.num_contact), ts.J_c)
        ELSE p1

\* lines 185-212: the program of a tick, and the error numpy raises on the way
BuildProgram(self, ts) ==
    LET eta == Eta(ts.x_tilde, ts.xd_tilde)
        p1  == AddJacobianTypeCost(NewTickProgram(self.mp, ts.num_contact),
                                   ts.J, ts.Jdv, ts.xdd_nom)
    IN  IF ~VdotCostShapesOk(self.P, self.G, eta, ts.J)
        THEN [mp |-> p1, error |-> "ValueError"]
        ELSE IF ~VdotConstraintShapesOk(self.F, self.P, self.G, eta, ts.J,
                                        ts.Jdv, ts.xdd_nom)
        THEN [mp |-> AddVdotCost(p1, self.P, self.G, ts.x_tilde, ts.xd_tilde,
                                 ts.J, 1),
              error |-> "ValueError"]
        ELSE [mp |-> AddContactTerms(
                         AddSlackConstraint(
                             AddVdotConstraint(
                                 AddVdotCost(p1, self.P, self.G, ts.x_tilde,
                                             ts.xd_tilde, ts.J, 1),
                                 self.F, self.P, self.G, self.gamma, ts.x_tilde,
                                 ts.xd_tilde, ts.J, ts.Jdv, ts.xdd_nom)),
                         ts),
              error |-> "none"]

---------------------------------------------------------------------------
(* The solver.                                                             *)

\* the rows of a program that bound [vd; delta]
Satisfies(prog, vd, delta) ==
    \A i \in 1..Len(prog.constraints) :
        LET c == prog.constraints[i]
        IN  /\ c.kind = "Vdot" => RLe(RDotI(c.A, HStack(vd, <<delta>>)), c.ub)
            /\ c.kind = "slack" => c.A[1] * delta <= c.ub

\* no solve was made
NoSolution == [success |-> FALSE, vd |-> <<>>, tau |-> <<>>, delta |-> 0]

\* self.solver.Solve(self.mp): the solver fails, or it reports success with
\* values of the decision variables that satisfy the program's constraints
Solve(prog) ==
    [success : {FALSE}, vd : {BodyAcc(k) : k \in FailedAccs},
     tau : {Zeros(NumActuators)}, delta : FailedSlacks]
    \cup
    {r \in [success : {TRUE}, vd : {BodyAcc(k) : k \in SolverAccs},
            tau : {Zeros(NumActuators)}, delta : SolverSlacks] :
        Satisfies(prog, r.vd, r.delta)}

---------------------------------------------------------------------------
(* ControlLaw.                                                             *)

Self ==
    [attrs |-> attrs, F |-> F, G |-> G, P |-> P, gamma |-> gamma,
     mp |-> mp, V |-> V, Vdot |-> Vdot, err |-> err]

\* what a call did: the method, how it ended, and the torque it returned
Ret(call, kind, tau) == [call |-> call, kind |-> kind, tau |-> tau]

\* a numpy shape error inside AddVdotCost or AddVdotConstraint: the program
\* built so far stays in self.mp
OnShapeError(self, b) ==
    [self |-> [self EXCEPT !.mp = b.mp, !.attrs = @ \cup {"mp"}],
     ret  |-> Ret("ControlLaw", "ValueError", <<>>),
     nsolve |-> 0]

\* assert result.is_success() fails: the call ends there
OnSolverFailure(self, b) ==
    [self |-> [self EXCEPT !.mp = b.mp, !.attrs = @ \cup {"mp"}],
     ret  |-> Ret("ControlLaw", "AssertionError", <<>>),
     nsolve |-> 1]

\* mutant of LogAndReturn: the tick also retunes the decay rate
LogAndReturn_Retunes(self, b, ts, sol) ==
    LET eta == Eta(ts.x_tilde, ts.xd_tilde)
    IN  [self |-> [self EXCEPT
                      !.mp = b.mp,
                      !.gamma = RAdd(self.gamma, Real(1)),
                      !.V = LyapunovVOnce(self.P, eta),
                      !.err = RDot(ts.x_tilde, ts.x_tilde),
                      !.Vdot = VdotOfOnce(self.F, self.P, self.G, eta, ts.J, sol.vd,
                                          ts.Jdv, ts.xdd_nom),
                      !.attrs = @ \cup {"mp", "V", "err", "Vdot"}],
         ret  |-> Ret("ControlLaw", "torque", sol.tau),
         nsolve |-> 1]

\* lines 216-225: the solution is read, V, err and Vdot are logged, tau returned
LogAndReturn(self, b, ts, sol) ==
    LET eta == Eta(ts.x_tilde, ts.xd_tilde)
    IN  [self |-> [self EXCEPT
                      !.mp = b.mp,
                      !.V = LyapunovVOnce(self.P, eta),
                      !.err = RDot(ts.x_tilde, ts.x_tilde),
                      !.Vdot = VdotOfOnce(self.F, self.P, self.G, eta, ts.J, sol.vd,
                                          ts.Jdv, ts.xdd_nom),
                      !.attrs = @ \cup {"mp", "V", "err", "Vdot"}],
         ret  |-> Ret("ControlLaw", "torque", sol.tau),
         nsolve |-> 1]

\* One call of ControlLaw from line 185 on, the solver answering sol.  The
\* assert statement of line 215 exists only when the interpreter runs without
\* -O (opt false); with -O the lines after it run on a failed result too.
ControlLawCall(self, ts, b, sol, opt) ==
    IF b.error # "none" THEN OnShapeError(self, b)
    ELSE IF ~sol.success /\ ~opt THEN OnSolverFailure(self, b)
    ELSE LogAndReturn(self, b, ts, sol)

\* controller.AddVdotCost(x_tilde, xd_tilde, J, vd) called by a client, outside
\* a tick: lines 36-38 act on the program that self.mp holds and return the
\* Binding that AddLinearCost returns
AddVdotCostCall(self, ts, hasmp) ==
    IF ~VdotCostShapesOk(self.P, self.G, Eta(ts.x_tilde, ts.xd_tilde), ts.J)
    THEN [self |-> self, ret |-> Ret("AddVdotCost", "ValueError", <<>>)]
    ELSE IF ~hasmp
    THEN [self |-> self, ret |-> Ret("AddVdotCost", "AttributeError", <<>>)]
    ELSE [self |-> [self EXCEPT
                       !.mp = AddVdotCost(self.mp, self.P, self.G, ts.x_tilde,
                                          ts.xd_tilde, ts.J, 1),
                       !.attrs = @ \cup {"mp"}],
          ret  |-> Ret("AddVdotCost", "Binding", <<>>)]

\* controller.AddVdotConstraint(x_tilde, xd_tilde, J, Jdv, xdd_nom, vd, delta)
\* called by a client, outside a tick: lines 48-58, which return the Binding
\* that AddLinearConstraint returns
AddVdotConstraintCall(self, ts, hasmp) ==
    IF ~VdotConstraintShapesOk(self.F, self.P, self.G, Eta(ts.x_tilde, ts.xd_tilde),
                               ts.J, ts.Jdv, ts.xdd_nom)
    THEN [self |-> self, ret |-> Ret("AddVdotConstraint", "ValueError", <<>>)]
    ELSE IF ~hasmp
    THEN [self |-> self, ret |-> Ret("AddVdotConstraint", "AttributeError", <<>>)]
    ELSE [self |-> [self EXCEPT
                       !.mp = AddVdotConstraint(self.mp, self.F, self.P, self.G,
                                                self.gamma, ts.x_tilde, ts.xd_tilde,
                                                ts.J, ts.Jdv, ts.xdd_nom),
                       !.attrs = @ \cup {"mp"}],
          ret  |-> Ret("AddVdotConstraint", "Binding", <<>>)]

NoTick ==
    [ticked |-> FALSE, qv |-> <<0, 0>>, cs |-> <<TRUE, TRUE, TRUE, TRUE>>, rr |-> 0,
     nsolve |-> 0, sol |-> NoSolution]

\* the interpreter starts with or without -O; no controller exists yet
Init ==
    /\ optimized \in BOOLEAN
    /\ attrs = {}
    /\ F = <<>>
    /\ G = <<>>
    /\ P = <<>>
    /\ gamma = RZero
    /\ mp = EmptyProgram
    /\ V = RZero
    /\ Vdot = RZero
    /\ err = RZero
    /\ built = "none"
    /\ ret = Ret("none", "none", <<>>)
    /\ last = NoTick
    /\ calls = 0

\* mutant of InitCall: a failed Riccati solve is ignored
InitCall_IgnoresFailure(self, care) ==
    LET withFG == [self EXCEPT !.F = FMatrix, !.G = GMatrix, !.attrs = @ \cup {"F", "G"}]
        Pm == RiccatiSolution(withFG.F, withFG.G, QMatrix, RMatrix)
    IN  IF care = "raises"
        THEN [self |-> withFG, built |-> "ready",
              ret |-> Ret("__init__", "constructed", <<>>)]
        ELSE [self |-> [withFG EXCEPT !.P = Pm, !.gamma = DecayRate(QMatrix, Pm),
                                     !.attrs = @ \cup {"P", "gamma"}],
              built |-> "ready",
              ret |-> Ret("__init__", "constructed", <<>>)]

\* CLFController.__init__, the Riccati solver answering care
InitCall(self, care) ==
    LET withFG == [self EXCEPT !.F = FMatrix, !.G = GMatrix, !.attrs = @ \cup {"F", "G"}]
        Pm == RiccatiSolution(withFG.F, withFG.G, QMatrix, RMatrix)
    IN  IF care = "raises"
        THEN [self |-> withFG, built |-> "aborted",
              ret |-> Ret("__init__", "RiccatiError", <<>>)]
        ELSE [self |-> [withFG EXCEPT !.P = Pm, !.gamma = DecayRate(QMatrix, Pm),
                                     !.attrs = @ \cup {"P", "gamma"}],
              built |-> "ready",
              ret |-> Ret("__init__", "constructed", <<>>)]

Assign(self) ==
    /\ attrs' = self.attrs
    /\ F' = self.F
    /\ G' = self.G
    /\ P' = self.P
    /\ gamma' = self.gamma
    /\ mp' = self.mp
    /\ V' = self.V
    /\ Vdot' = self.Vdot
    /\ err' = self.err

\* CLFController(plant, dt)
Construct(care) ==
    /\ built = "none"
    /\ \E r \in {InitCall(Self, care)} :
           /\ Assign(r.self)
           /\ built' = r.built
           /\ ret' = r.ret
    /\ UNCHANGED <<last, optimized, calls>>

\* controller.ControlLaw(context, q, v) with the trunk setpoint (cs, rr) on the
\* input port; each bound value is computed once, in the order of the code
ControlLaw(qv, cs, rr) ==
    /\ built = "ready"
    /\ \E ts \in {TaskSpaceAt(qv, cs, rr)} :
       \E b \in {BuildProgram(Self, ts)} :
       \E sol \in (IF b.error = "none" THEN Solve(b.mp) ELSE {NoSolution}) :
       \E r \in {ControlLawCall(Self, ts, b, sol, optimized)} :
           /\ Assign(r.self)
           /\ ret' = r.ret
           /\ last' = [ticked |-> TRUE, qv |-> qv, cs |-> cs, rr |-> rr,
                       nsolve |-> r.nsolve, sol |-> sol]
    /\ calls' = 0
    /\ UNCHANGED <<built, optimized>>

\* the task-space quantities that a client passes to a builder it calls itself
DirectArgs ==
    {TaskSpaceAt(<<1, 1>>, PlanOf(k), 1) : k \in {2 ^ NumFeet - 1, 2 ^ NumFeet - 2}}

\* Before the first tick the field mp is what IDController.__init__ leaves, which
\* CLFController does not say: the field exists (hasmp) or it does not.
HasProgram == IF "mp" \in attrs THEN {TRUE} ELSE BOOLEAN

\* a client calls controller.AddVdotCost itself
CallAddVdotCost(ts) ==
    /\ built = "ready"
    /\ calls < MaxDirectCalls
    /\ \E hasmp \in HasProgram :
       \E r \in {AddVdotCostCall(Self, ts, hasmp)} :
           /\ Assign(r.self)
           /\ ret' = r.ret
    /\ calls' = calls + 1
    /\ UNCHANGED <<built, last, optimized>>

\* a client calls controller.AddVdotConstraint itself
CallAddVdotConstraint(ts) ==
    /\ built = "ready"
    /\ calls < MaxDirectCalls
    /\ \E hasmp \in HasProgram :
       \E r \in {AddVdotConstraintCall(Self, ts, hasmp)} :
           /\ Assign(r.self)
           /\ ret' = r.ret
    /\ calls' = calls + 1
    /\ UNCHANGED <<built, last, optimized>>

Next ==
    \/ \E care \in RiccatiOutcomes : Construct(care)
    \/ \E qv \in Configs, cs \in ContactPlans, rr \in PlannedRates : ControlLaw(qv, cs, rr)
    \/ \E ts \in DirectArgs : CallAddVdotCost(ts)
    \/ \E ts \in DirectArgs : CallAddVdotConstraint(ts)

Spec == Init /\ [][Next]_vars

---------------------------------------------------------------------------
(* What the claims speak of.                                               *)

\* the quantities of the latest tick
Ts == TaskSpaceAt(last.qv, last.cs, last.rr)

\* the latest call was a tick: no builder has been called since
Ticked == last.ticked /\ ret.call = "ControlLaw"

EtaOfTick == Eta(Ts.x_tilde, Ts.xd_tilde)

\* the feet a list of flags marks, in the order lf, rf, lh, rh
RECURSIVE MarkedFrom(_, _)
MarkedFrom(flags, f) ==
    IF f > Len(flags) THEN <<>>
    ELSE (IF flags[f] THEN <<f>> ELSE <<>>) \o MarkedFrom(flags, f + 1)

ContactList == MarkedFrom(last.cs, 1)

SwingList == MarkedFrom([f \in Feet |-> ~last.cs[f]], 1)

\* the rows 3k-2 .. 3k of the swing part of a stacked vector
SwingBlock(x, k) == Slice(x, BodyDim + 3 * (k - 1), BodyDim + 3 * k)

KindCount(items, kind) == Cardinality({i \in 1..Len(items) : items[i].kind = kind})

ForceVars == SelectSeq(mp.vars, LAMBDA v : \E j \in 1..NumFeet : v.name = ForceNames[j])

ClfRow == mp.constraints[CHOOSE i \in 1..Len(mp.constraints) : mp.constraints[i].kind = "Vdot"]

HasClf == Ticked /\ KindCount(mp.constraints, "Vdot") = 1

\* the slacks that the program's bounds on delta admit
Admissible(d) ==
    \A i \in 1..Len(mp.constraints) :
        mp.constraints[i].kind = "slack" => mp.constraints[i].A[1] * d <= mp.constraints[i].ub

\* accelerations and slacks the statements about the CLF row range over
AccRange ==
    {BodyAcc(k) : k \in (-MaxAcc)..MaxAcc}
    \cup {Arr([i \in 1..NumVelocities |-> IF i = 3 THEN a ELSE IF i = 4 THEN b ELSE 0]) :
              a \in (-(MaxAcc \div 4))..(MaxAcc \div 4),
              b \in (-(MaxAcc \div 4))..(MaxAcc \div 4)}

SlackRange == (-MaxSlack)..MaxSlack

\* Vdot of the latest tick's error at the acceleration vd, as line 223 computes it
VdotAt(vd) == VdotOf(F, P, G, EtaOfTick, Ts.J, vd, Ts.Jdv, Ts.xdd_nom)

VOfTick == LyapunovVOnce(P, EtaOfTick)

\* gamma*V of the latest tick
GammaV == RMul(gamma, VOfTick)

\* the nominal decrease requirement Vdot <= -gamma*V
Nominal(vd) == RLe(VdotAt(vd), RNeg(GammaV))

\* the acceleration columns of the row that AddVdotConstraint added, at vd
RowAt(vd) == RDotI(SubSeq(ClfRow.A, 1, Len(vd)), vd)

\* the row that AddVdotConstraint added, at [vd; delta], av being RowAt(vd)
Relaxed(av, d) == RLe(RAdd(av, RScale(d, ClfRow.A[Len(ClfRow.A)])), ClfRow.ub)

\* the smallest positive decimal
Ulp == <<0, 1>>

\* a * b <= c for decimals a, b, c >= 0, without rounding the product
ProdLe(a, b, c) == LimbsLe(MulLimbs(Limbs(a), Limbs(b)), Limbs(c) \o <<0, 0>>)

---------------------------------------------------------------------------
(* C1: for every assignment of the four contact flags ControlLaw builds    *)
(* its costs and constraints without raising: eta = [x_tilde; xd_tilde],   *)
(* of length 2*(6+3*ns), fits the certificate matrices P, F and G, and the *)
(* only error a tick can end in is a solver failure.                       *)
C1_EveryContactPlanBuilds ==
    Ticked =>
        /\ VdotConstraintShapesOk(F, P, G, EtaOfTick, Ts.J, Ts.Jdv, Ts.xdd_nom)
        /\ Len(EtaOfTick) = 2 * (BodyDim + 3 * Len(SwingList))
        /\ ret.kind \in {"torque", "AssertionError"}

\* a step that is a tick returns a torque only when its solve succeeded, and a
\* tick whose solve failed raises and leaves the diagnostics alone
FailedSolveIsFatalStep ==
    ret'.call = "ControlLaw" =>
        /\ (ret'.kind = "torque" =>
               /\ last'.sol.success
               /\ last'.nsolve = 1
               /\ ret'.tau = last'.sol.tau)
        /\ (last'.nsolve >= 1 /\ ~last'.sol.success =>
               /\ ret'.kind = "AssertionError"
               /\ ret'.tau = <<>>
               /\ last'.nsolve = 1
               /\ V' = V
               /\ Vdot' = Vdot
               /\ err' = err
               /\ attrs' \cap {"V", "Vdot", "err"} = attrs \cap {"V", "Vdot", "err"})

(* C2: ControlLaw returns a torque only on a tick whose solve succeeded;   *)
(* a tick whose solve fails raises, returns no torque, solves once and     *)
(* leaves V, Vdot and err as they were.                                    *)
C2_FailedSolveIsFatal == [][FailedSolveIsFatalStep]_vars

\* C2 where the assert statement runs (the interpreter started without -O)
C2_FatalWhenAssertsRun == [][~optimized => FailedSolveIsFatalStep]_vars

(* C3: no tick runs on a controller without a certificate: when the        *)
(* Riccati solve fails, construction aborts and no tick ever runs;         *)
(* otherwise P and gamma = min eig(Q) / max eig(P) > 0 are set before the  *)
(* first tick.                                                             *)
C3_CertificateBeforeTicks ==
    /\ built = "aborted" =>
           /\ ~last.ticked
           /\ ret.kind = "RiccatiError"
           /\ attrs \cap {"P", "gamma"} = {}
    /\ last.ticked => built = "ready"
    /\ built = "ready" =>
           /\ {"P", "gamma"} \subseteq attrs
           /\ RLt(RZero, gamma)
           /\ \E eig \in {Eigvals(P)} :
                  /\ ProdLe(gamma, RMax(eig), Real(QWeight))
                  /\ ~ProdLe(RAdd(gamma, Ulp), RMax(eig), Real(QWeight))
                  /\ RLt(RZero, RMin(eig))

\* a tick has run on a constructed controller
C3_Witness == last.ticked /\ built = "ready" /\ RLt(RZero, gamma)

(* C4: on every tick the swing and the contact feet are disjoint and cover *)
(* the four feet, and the program has one 3-vector force per contact foot: *)
(* len(f_c) = num_contact = len(J_c), force j and Jacobian j belonging to  *)
(* the j-th contact foot in the order lf, rf, lh, rh.                      *)
C4_FeetPartitionAndForces ==
    last.ticked =>
        /\ \A f \in Feet : Ts.swing_feet[f] # Ts.contact_feet[f]
        /\ Ts.contact_feet = last.cs
        /\ Ts.num_swing + Ts.num_contact = NumFeet
        /\ Ts.num_contact = Len(ContactList)
        /\ Ts.num_swing = Len(SwingList)
        /\ Len(ForceVars) = Ts.num_contact
        /\ Len(Ts.J_c) = Ts.num_contact
        /\ \A j \in 1..Ts.num_contact :
               /\ ForceVars[j] = [name |-> ForceNames[j], rows |-> 3]
               /\ Ts.J_c[j] = RobotState(last.qv[1], last.qv[2]).J_feet[ContactList[j]]
               /\ Ts.Jdv_c[j] = RobotState(last.qv[1], last.qv[2]).Jdv_feet[ContactList[j]]

\* a tick with the diagonal pair lf, lh in contact and rf, rh swinging
C4_Witness ==
    /\ last.ticked
    /\ last.cs = <<TRUE, FALSE, TRUE, FALSE>>
    /\ Len(ForceVars) = 2

(* C5: the slack, bounded by delta <= 0, only loosens the nominal         *)
(* requirement Vdot <= -gamma*V: whatever delta the program admits, every  *)
(* vd that meets the nominal requirement meets the row that ControlLaw     *)
(* added, Vdot <= -gamma*V + delta.                                        *)
C5_SlackOnlyLoosens ==
    HasClf =>
        \A vd \in AccRange : Nominal(vd) =>
            LET av == RowAt(vd)
            IN  \A d \in SlackRange : Admissible(d) => Relaxed(av, d)

(* C5, amended: the slack, bounded by delta <= 0, only tightens the        *)
(* nominal requirement: whatever delta the program admits, every vd that   *)
(* meets the added row Vdot <= -gamma*V + delta meets Vdot <= -gamma*V,    *)
(* and with delta = 0 the two requirements are the same.                   *)
C5_SlackOnlyTightens ==
    HasClf =>
        /\ Admissible(0)
        /\ \A vd \in AccRange :
               LET nominal == Nominal(vd)
                   av      == RowAt(vd)
               IN  /\ Relaxed(av, 0) <=> nominal
                   /\ \A d \in SlackRange :
                          Admissible(d) /\ Relaxed(av, d) => nominal

\* a program with the CLF row of a nonzero error, and an acceleration that meets
\* the row with a negative slack the program admits
C5_Witness ==
    /\ HasClf
    /\ RLt(RZero, VOfTick)
    /\ \E vd \in AccRange :
           /\ Nominal(vd)
           /\ \E d \in SlackRange : d < 0 /\ Admissible(d) /\ Relaxed(RowAt(vd), d)

(* C6: on every tick, whatever the contact plan, the program holds the CLF *)
(* row and delta <= 0, the row A*[vd; delta] <= ub says exactly            *)
(* Vdot <= -gamma*V + delta for the Vdot that is logged after the solve,   *)
(* and so the logged V and Vdot of an accepted solution satisfy            *)
(* Vdot <= -gamma*V + delta with delta <= 0.                               *)
C6_ClfRowOnEveryTick ==
    Ticked =>
        /\ KindCount(mp.constraints, "Vdot") = 1
        /\ KindCount(mp.constraints, "slack") = 1
        /\ \A d \in SlackRange : Admissible(d) <=> d <= 0
        /\ \A vd \in AccRange :
               LET vdot == VdotAt(vd)
                   av   == RowAt(vd)
               IN  \A d \in SlackRange :
                       Relaxed(av, d) <=> RLe(vdot, RAdd(RNeg(GammaV), Real(d)))
        /\ ret.kind = "torque" /\ last.sol.success =>
               /\ V = VOfTick
               /\ Vdot = VdotAt(last.sol.vd)
               /\ RLe(Vdot, RAdd(RNeg(GammaV), Real(last.sol.delta)))
               /\ last.sol.delta <= 0

\* C6 on the ticks that reach AddVdotConstraint (all four feet in contact)
C6_OnStanceTicks == Len(SwingList) = 0 => C6_ClfRowOnEveryTick

(* C7: friction-pyramid and no-slip constraints are in a tick's program    *)
(* exactly when a foot is in contact; with no foot in contact there is no  *)
(* force variable and the dynamics equality has an empty contact sum; the  *)
(* CLF row, delta <= 0, the tracking cost and the dynamics equality are in *)
(* the program of every tick.                                              *)
C7_ContactTermsIffContact ==
    Ticked =>
        /\ KindCount(mp.constraints, "friction") = (IF Len(ContactList) > 0 THEN 1 ELSE 0)
        /\ KindCount(mp.constraints, "contact") = (IF Len(ContactList) > 0 THEN 1 ELSE 0)
        /\ Len(ContactList) = 0 => Len(ForceVars) = 0
        /\ KindCount(mp.constraints, "Vdot") = 1
        /\ KindCount(mp.constraints, "slack") = 1
        /\ KindCount(mp.costs, "tracking") = 1
        /\ KindCount(mp.constraints, "dynamics") = 1
        /\ \A i \in 1..Len(mp.constraints) :
               mp.constraints[i].kind = "dynamics" => mp.constraints[i].n = Len(ContactList)

(* C8: for every contact plan with ns swing feet, x, x_nom, xd, xd_nom,    *)
(* xdd_nom, x_tilde, xd_tilde and Jdv have length 6 + 3*ns and J has       *)
(* 6 + 3*ns rows, stacked as body orientation, body position, then the     *)
(* swing feet in the order lf, rf, lh, rh, the k-th swing block of the     *)
(* measured and of the nominal vectors being the same foot's; with all     *)
(* feet in contact they are the 6-dimensional body vectors and J = J_body. *)
C8_StackedTaskQuantities ==
    last.ticked =>
        LET n     == BodyDim + 3 * Len(SwingList)
            rob   == RobotState(last.qv[1], last.qv[2])
            trunk == TrunkData(last.cs, last.rr)
        IN  /\ \A a \in {Ts.x, Ts.x_nom, Ts.x_tilde} : Len(a) = n
            /\ \A a \in {Ts.xd, Ts.xd_nom, Ts.xdd_nom, Ts.xd_tilde, Ts.Jdv} : Len(a) = n
            /\ Rows(Ts.J) = n
            /\ \A i \in 1..n : Len(Ts.J[i]) = NumVelocities
            /\ Slice(Ts.x, 0, 3) = RpyVector(rob.yaw)
            /\ Slice(Ts.x, 3, 6) = RealV(rob.p_body)
            /\ Slice(Ts.x_nom, 0, 3) = RealV(trunk.rpy_body)
            /\ Slice(Ts.x_nom, 3, 6) = RealV(trunk.p_body)
            /\ Slice(Ts.xd_nom, 3, 6) = trunk.pd_body
            /\ Slice(Ts.xdd_nom, 3, 6) = trunk.pdd_body
            /\ Slice(Ts.J, 0, BodyDim) = rob.J_body
            /\ Slice(Ts.Jdv, 0, BodyDim) = rob.Jdv_body
            /\ \A k \in 1..Len(SwingList) :
                   LET f == SwingList[k]
                   IN  /\ SwingBlock(Ts.x, k) = RealV(rob.p_feet[f])
                       /\ SwingBlock(Ts.xd, k) = MatVec(rob.J_feet[f], rob.v)
                       /\ SwingBlock(Ts.x_nom, k) = RealV(trunk.p_feet[f])
                       /\ SwingBlock(Ts.xd_nom, k) = trunk.pd_feet[f]
                       /\ SwingBlock(Ts.xdd_nom, k) = trunk.pdd_feet[f]
                       /\ SwingBlock(Ts.J, k) = rob.J_feet[f]
                       /\ SwingBlock(Ts.Jdv, k) = rob.Jdv_feet[f]
            /\ Ts.x_tilde = RSubV(Ts.x, Ts.x_nom)
            /\ Ts.xd_tilde = SubV(Ts.xd, Ts.xd_nom)
            /\ Len(SwingList) = 0 => Ts.J = rob.J_body /\ Len(Ts.x) = BodyDim

\* a tick with rf and rh swinging: two swing blocks, in that order
C8_Witness ==
    /\ last.ticked
    /\ SwingList = <<2, 4>>
    /\ Len(Ts.x) = BodyDim + 6
    /\ last.qv[2] = 1

\* the program that a controller with no earlier tick builds from the inputs
\* of the latest tick
FreshProgram == BuildProgram([Self EXCEPT !.mp = EmptyProgram], Ts).mp

\* a program holds each variable, cost and constraint once
NoRepeats(prog) ==
    /\ \A i, j \in 1..Len(prog.vars) : prog.vars[i].name = prog.vars[j].name => i = j
    /\ \A i \in 1..Len(prog.costs) : KindCount(prog.costs, prog.costs[i].kind) = 1
    /\ \A i \in 1..Len(prog.constraints) :
           KindCount(prog.constraints, prog.constraints[i].kind) = 1

\* the program of a tick is built from that tick's inputs alone
FreshEveryTick ==
    Ticked =>
        /\ NoRepeats(mp)
        /\ Len(mp.vars) = 3 + Len(ContactList)
        /\ mp = FreshProgram

(* C9: the program of a tick is created in that tick and holds only what   *)
(* that tick added, whatever the earlier ticks were, so that controllers   *)
(* with different histories build the same program from the same inputs;   *)
(* and the program is not retained once the tick ends.                     *)
C9_ProgramNotRetained ==
    /\ FreshEveryTick
    /\ Ticked => "mp" \notin attrs

\* what the code does in place of the last clause of C9: the program stays in
\* the field mp after the tick ends, where a builder that a client calls itself
\* appends to it, until the next tick replaces it
ProgramRetainedInField ==
    /\ FreshEveryTick
    /\ last.ticked =>
           /\ "mp" \in attrs
           /\ mp.vars = FreshProgram.vars
           /\ SubSeq(mp.costs, 1, Len(FreshProgram.costs)) = FreshProgram.costs
           /\ SubSeq(mp.constraints, 1, Len(FreshProgram.constraints))
                  = FreshProgram.constraints
           /\ Len(mp.costs) + Len(mp.constraints)
                  <= Len(FreshProgram.costs) + Len(FreshProgram.constraints) + calls

\* a direct AddVdotCost call after a solved tick has appended a second Vdot
\* cost to the program that the tick left in the field
StaleProgramMutated ==
    /\ last.ticked
    /\ ret = Ret("AddVdotCost", "Binding", <<>>)
    /\ KindCount(mp.costs, "Vdot") = 2

(* C10: the certificate (F, G, P, gamma) is computed once, in __init__,    *)
(* and no call of ControlLaw, AddVdotCost or AddVdotConstraint changes it, *)
(* whether a tick succeeds or fails and whatever the contact plan is; a    *)
(* tick writes no field other than mp, V, Vdot and err.                    *)
C10_CertificateFrame ==
    [][ /\ built = "ready" =>
               /\ built' = "ready"
               /\ F' = F
               /\ G' = G
               /\ P' = P
               /\ gamma' = gamma
               /\ attrs \subseteq attrs'
               /\ attrs' \ attrs \subseteq {"mp", "V", "Vdot", "err"}
        /\ built' = "ready" =>
               /\ F' = FMatrix
               /\ G' = GMatrix
               /\ {"F", "G", "P", "gamma"} \subseteq attrs'
      ]_vars

\* a client has added a second CLF row to the program of a solved tick that
\* logged V, Vdot and err
C10_Witness ==
    /\ ret = Ret("AddVdotConstraint", "Binding", <<>>)
    /\ KindCount(mp.constraints, "Vdot") = 2
    /\ attrs = {"F", "G", "P", "gamma", "mp", "V", "Vdot", "err"}
    /\ RLt(RZero, V)

===========================================================================
